---- MODULE Spec2Model ----
(***************************************************************************)
(* Model of the wiki generation run of api/cli.py (command generate)   and *)
(* of WikiGenerator.parse_wiki_structure_xml of api/repo_wiki_gen.py.      *)
(*                                                                         *)
(* Text is modelled as a sequence of tokens.  A structure response is a    *)
(* record [toks, tree]: toks is the token sequence of the response text    *)
(* and tree is the element tree that the token "body" stands for (the      *)
(* children of the root element as ElementTree would deliver them).        *)
(* Python's Optional[T] is modelled as a sequence of length 0 (None) or    *)
(* 1 (a value).                                                            *)
(***************************************************************************)
EXTENDS Integers, Sequences, FiniteSets, TLC

VARIABLES
    pc,                 \* position of the run in generate / the parser harness
    idx,                \* 1-based number of the page the loop is at
    is_comprehensive,   \* WikiGenerator.is_comprehensive
    generated_pages,    \* WikiGenerator.generated_pages
    pages_in_progress,  \* WikiGenerator.pages_in_progress
    structure_xml,      \* the structure response text, None before it arrives
    wiki_structure,     \* result of parse_wiki_structure_xml, None before
    page_responses,     \* page_content of every page generated so far
    files,              \* page artifacts of the output directory, by name
    index_file,         \* content of README.md, None while not written
    calls,              \* retrieval and generator calls issued, in order
    persisted,          \* numbers of the pages written in this run, in order
    write_errors,       \* writes that raised, in order
    repo_info,          \* WikiGenerator.repo_info
    documents,          \* retrieved_docs[0].documents of the last retrieval
    context_text,       \* the context assembled from documents
    file_links          \* generate_file_url of the page's file paths

vars == <<pc, idx, is_comprehensive, generated_pages, pages_in_progress,
          structure_xml, wiki_structure, page_responses, files, index_file,
          calls, persisted, write_errors, repo_info, documents, context_text,
          file_links>>

promptVars == <<repo_info, documents, context_text, file_links>>

(***************************************************************************)
(* Bounds of the model.                                                    *)
(***************************************************************************)
MaxPages == 2

MaxPageElems == 2

MaxSections == 2

MaxDocs == 3

MaxExtraDocs == 2

MaxTitleLen == 3

(***************************************************************************)
(* Optional values and small helpers.                                      *)
(***************************************************************************)
None == <<>>

Some(x) == <<x>>

Absent == "<absent>"

Range(s) == {s[i] : i \in 1..Len(s)}

SeqsUpTo(S, n) == UNION {[1..k -> S] : k \in 0..n}

RECURSIVE ConcatAll(_)
ConcatAll(ss) == IF ss = <<>> THEN <<>> ELSE Head(ss) \o ConcatAll(Tail(ss))

(***************************************************************************)
(* Text cleanup of parse_wiki_structure_xml.                               *)
(* Tokens: "ctrl" a C0 control character other than tab, line feed and    *)
(* carriage return, "del" DEL, "ws" whitespace (space, tab, line feed or   *)
(* carriage return), "fence" a fence marker, "xml" / "XML" the fence tag,  *)
(* "prose" other text, "open" <wiki_structure>, "close" </wiki_structure>, *)
(* "title_open" / "title_close" the tags of the root's title child, whose  *)
(* text is the tokens between them, "body" the other well-formed element   *)
(* content, "badxml" content that is not well-formed.                      *)
(***************************************************************************)
StripControlSkipped(toks) == toks

StripControl(toks) == SelectSeq(toks, LAMBDA t : t \notin {"ctrl", "del"})

RECURSIVE DropLeadingWs(_)
DropLeadingWs(toks) ==
    IF toks # <<>> /\ Head(toks) = "ws" THEN DropLeadingWs(Tail(toks)) ELSE toks

RECURSIVE DropTrailingWs(_)
DropTrailingWs(toks) ==
    IF toks # <<>> /\ toks[Len(toks)] = "ws"
    THEN DropTrailingWs(SubSeq(toks, 1, Len(toks) - 1))
    ELSE toks

StripLeadingFence(toks) ==
    IF toks # <<>> /\ Head(toks) = "fence"
    THEN LET rest == Tail(toks)
             untagged == IF rest # <<>> /\ Head(rest) \in {"xml", "XML"}
                         THEN Tail(rest) ELSE rest
         IN  DropLeadingWs(untagged)
    ELSE toks

StripTrailingFence(toks) ==
    LET core == DropTrailingWs(toks)
    IN  IF core # <<>> /\ core[Len(core)] = "fence"
        THEN SubSeq(core, 1, Len(core) - 1)
        ELSE toks

CleanXmlText(toks) == StripTrailingFence(StripLeadingFence(StripControl(toks)))

\* re.search for the non-greedy wiki_structure span: the leftmost
\* opening tag that has a closing tag after it, up to the first such closing
\* tag.  The result is the text strictly between the two tags, or None.
SearchSpan(toks) ==
    LET opens == {i \in 1..Len(toks) :
                    toks[i] = "open" /\ \E j \in (i+1)..Len(toks) : toks[j] = "close"}
    IN  IF opens = {} THEN None
        ELSE LET i == CHOOSE a \in opens : \A b \in opens : a <= b
                 j == CHOOSE a \in (i+1)..Len(toks) :
                        /\ toks[a] = "close"
                        /\ \A b \in (i+1)..(a-1) : toks[b] # "close"
             IN  Some(SubSeq(toks, i + 1, j - 1))

TitleOpens(inner) == {i \in 1..Len(inner) : inner[i] = "title_open"}

TitleCloses(inner) == {i \in 1..Len(inner) : inner[i] = "title_close"}

\* ET.fromstring on the span: a nested unclosed root tag, malformed content,
\* a control character that XML 1.0 forbids, or a title tag without its
\* partner raises ParseError.
WellFormed(inner) ==
    /\ \A i \in 1..Len(inner) : inner[i] \notin {"open", "badxml", "ctrl"}
    /\ \/ TitleOpens(inner) = {} /\ TitleCloses(inner) = {}
       \/ \E i \in TitleOpens(inner), j \in TitleCloses(inner) :
            TitleOpens(inner) = {i} /\ TitleCloses(inner) = {j} /\ i < j

EmptyTree == [title |-> <<>>, description |-> <<>>, has_pages |-> FALSE,
              pages |-> <<>>, has_sections |-> FALSE, sections |-> <<>>]

\* The root element: the children that "body" stands for, or none; the text
\* of a title child written out in the span is read as it stands.
RootOf(inner, tree) ==
    LET base == IF \E i \in 1..Len(inner) : inner[i] = "body" THEN tree ELSE EmptyTree
    IN  IF TitleOpens(inner) = {} THEN base
        ELSE LET i == CHOOSE a \in TitleOpens(inner) : TRUE
                 j == CHOOSE a \in TitleCloses(inner) : TRUE
             IN  [base EXCEPT !.title = SubSeq(inner, i + 1, j - 1)]

(***************************************************************************)
(* Extraction of pages and sections (parse_wiki_structure_xml).            *)
(* A page element is [id, title, importance, file_paths, related]: id and  *)
(* importance are the attribute / child text or Absent, title is the       *)
(* child text (empty when the child is missing), the lists hold the texts  *)
(* of the file_path / related children.  A section element is             *)
(* [id, title, page_refs, section_refs].                                   *)
(***************************************************************************)
DefaultPageId(n) == "page-" \o ToString(n)

DefaultSectionId(n) == "section-" \o ToString(n)

\* elem.get('id', default): the default is used only when the attribute is
\* missing.
GetId(attr, default) == IF attr = Absent THEN default ELSE attr

\* page_elem.findtext('importance', 'medium')
FindImportance(text) == IF text = Absent THEN "medium" ELSE text

ValidateImportanceDropLow(importance) ==
    IF importance \notin {"high", "medium"} THEN "medium" ELSE importance

ValidateImportance(importance) ==
    IF importance \notin {"high", "medium", "low"} THEN "medium" ELSE importance

\* [e.text for e in ... if e.text]
NonEmptyTexts(texts) == SelectSeq(texts, LAMBDA t : t # "")

MakePage(elem, n) ==
    [id            |-> GetId(elem.id, DefaultPageId(n)),
     title         |-> elem.title,
     content       |-> <<>>,
     file_paths    |-> NonEmptyTexts(elem.file_paths),
     importance    |-> ValidateImportance(FindImportance(elem.importance)),
     related_pages |-> NonEmptyTexts(elem.related)]

\* The loop over pages_elem.findall('page'); len(pages) + 1 is the number of
\* the entry being created.
RECURSIVE ParsePagesFrom(_, _)
ParsePagesFrom(elems, pages) ==
    IF elems = <<>> THEN pages
    ELSE ParsePagesFrom(Tail(elems), Append(pages, MakePage(Head(elems), Len(pages) + 1)))

ParsePages(root) == IF root.has_pages THEN ParsePagesFrom(root.pages, <<>>) ELSE <<>>

MakeSection(elem, n) ==
    LET subsections == NonEmptyTexts(elem.section_refs)
    IN  [id          |-> GetId(elem.id, DefaultSectionId(n)),
         title       |-> elem.title,
         pages       |-> NonEmptyTexts(elem.page_refs),
         subsections |-> IF subsections # <<>> THEN Some(subsections) ELSE None]

RECURSIVE ParseSectionsFrom(_, _)
ParseSectionsFrom(elems, sections) ==
    IF elems = <<>> THEN sections
    ELSE ParseSectionsFrom(Tail(elems),
                           Append(sections, MakeSection(Head(elems), Len(sections) + 1)))

\* referenced_sections.update(section.subsections) for every section that has
\* subsections.
RECURSIVE ReferencedSections(_, _)
ReferencedSections(sections, referenced) ==
    IF sections = <<>> THEN referenced
    ELSE LET s == Head(sections)
         IN  ReferencedSections(Tail(sections),
                                IF s.subsections # None
                                THEN referenced \cup Range(s.subsections[1])
                                ELSE referenced)

RECURSIVE IdsOf(_)
IdsOf(items) == IF items = <<>> THEN <<>> ELSE <<Head(items).id>> \o IdsOf(Tail(items))

RootSectionsOwnRefsIgnored(sections) ==
    LET notByOther(i) == \A j \in 1..Len(sections) :
                            j # i => \/ sections[j].subsections = None
                                     \/ sections[i].id \notin Range(sections[j].subsections[1])
        RECURSIVE pick(_)
        pick(i) == IF i > Len(sections) THEN <<>>
                   ELSE (IF notByOther(i) THEN <<sections[i].id>> ELSE <<>>) \o pick(i + 1)
    IN  pick(1)

\* [s.id for s in sections if s.id not in referenced_sections]
RootSections(sections) ==
    LET referenced_sections == ReferencedSections(sections, {})
    IN  IdsOf(SelectSeq(sections, LAMBDA s : s.id \notin referenced_sections))

ExtractStructure(root, comprehensive) ==
    LET pages    == ParsePages(root)
        withSecs == comprehensive /\ root.has_sections
        sections == IF withSecs THEN ParseSectionsFrom(root.sections, <<>>) ELSE <<>>
    IN  [id            |-> "wiki",
         title         |-> root.title,
         description   |-> root.description,
         pages         |-> pages,
         sections      |-> sections,
         root_sections |-> IF withSecs THEN RootSections(sections) ELSE <<>>]

EmptyStructure == ExtractStructure(EmptyTree, FALSE)

parse_wiki_structure_xml_lenient(response, comprehensive) ==
    LET span == SearchSpan(CleanXmlText(response.toks))
    IN  IF span = None \/ ~WellFormed(span[1]) THEN Some(EmptyStructure)
        ELSE Some(ExtractStructure(RootOf(span[1], response.tree), comprehensive))

\* Optional[WikiStructure]: None when no span is found or the span does not
\* parse (the except branch).
parse_wiki_structure_xml(response, comprehensive) ==
    LET span == SearchSpan(CleanXmlText(response.toks))
    IN  IF span = None THEN None
        ELSE IF ~WellFormed(span[1]) THEN None
        ELSE Some(ExtractStructure(RootOf(span[1], response.tree), comprehensive))

(***************************************************************************)
(* Page artifacts (generate, steps 6 and 7).  A title is a sequence of     *)
(* characters; a file name is the sanitized title followed by ".md".       *)
(***************************************************************************)
AlnumChars ==
    {"A", "B", "c", "1", "P", "I", "R", "o", "u", "t", "i", "n", "g", "D", "s", "p", "a", "h"}

IsKept(c) == c \in AlnumChars \/ c \in {" ", "-", "_"}

RECURSIVE StripLeft(_)
StripLeft(cs) == IF cs # <<>> /\ Head(cs) = " " THEN StripLeft(Tail(cs)) ELSE cs

RECURSIVE StripRight(_)
StripRight(cs) ==
    IF cs # <<>> /\ cs[Len(cs)] = " " THEN StripRight(SubSeq(cs, 1, Len(cs) - 1)) ELSE cs

SafeFilenameUnderscoreFirst(title) ==
    LET kept     == SelectSeq(title, IsKept)
        replaced == [i \in 1..Len(kept) |-> IF kept[i] = " " THEN "_" ELSE kept[i]]
    IN  StripRight(StripLeft(replaced))

SafeFilename(title) ==
    LET kept    == SelectSeq(title, IsKept)
        trimmed == StripRight(StripLeft(kept))
    IN  [i \in 1..Len(trimmed) |-> IF trimmed[i] = " " THEN "_" ELSE trimmed[i]]

MarkdownFile(title) == SafeFilename(title) \o <<".md">>

\* page_content.replace(fence + 'markdown', '').replace(fence, '')
RECURSIVE RemoveMarkdownFence(_)
RemoveMarkdownFence(text) ==
    IF text = <<>> THEN <<>>
    ELSE IF Len(text) >= 2 /\ text[1] = "fence" /\ text[2] = "markdown"
         THEN RemoveMarkdownFence(SubSeq(text, 3, Len(text)))
         ELSE <<Head(text)>> \o RemoveMarkdownFence(Tail(text))

CleanPageContent(text) ==
    SelectSeq(RemoveMarkdownFence(text), LAMBDA t : t # "fence")

IsNone(page_content) == page_content = None

\* not page_content: None and the empty string are both falsy.
IsFalsy(page_content) == page_content = None \/ page_content[1] = <<>>

IndexLine(page) == [title |-> page.title, target |-> MarkdownFile(page.title)]

\* The index lists wiki_structure.pages, all of them.
IndexContent(ws) ==
    [title       |-> ws.title,
     description |-> ws.description,
     links       |-> [i \in 1..Len(ws.pages) |-> IndexLine(ws.pages[i])]]

WriteFileKeepsExisting(fs, name, content) ==
    [n \in DOMAIN fs \cup {name} |-> IF n \in DOMAIN fs THEN fs[n] ELSE content]

\* open(markdown_file, 'w') and write: an existing file is replaced.
WriteFile(fs, name, content) ==
    [n \in DOMAIN fs \cup {name} |-> IF n = name THEN content ELSE fs[n]]

(***************************************************************************)
(* Context assembly (generate, steps 5 and 6).  A document is              *)
(* [file_path, text] with file_path Absent when the meta data has none; a  *)
(* context is a sequence of tokens: "nl" a newline, "nl2" a blank line,    *)
(* a header, a rule of dashes, or the text of a document.                  *)
(***************************************************************************)
PageDocLimit == 15

\* doc.meta_data.get('file_path', 'unknown')
PathOf(doc) == IF doc.file_path = Absent THEN "unknown" ELSE doc.file_path

RECURSIVE Join(_, _)
Join(parts, sep) ==
    IF parts = <<>> THEN <<>>
    ELSE IF Len(parts) = 1 THEN parts[1]
    ELSE parts[1] \o sep \o Join(Tail(parts), sep)

\* The keys of docs_by_file, in insertion order.
RECURSIVE FilesInOrder(_, _)
FilesInOrder(docs, seen) ==
    IF docs = <<>> THEN seen
    ELSE FilesInOrder(Tail(docs),
                      IF PathOf(Head(docs)) \in Range(seen) THEN seen
                      ELSE Append(seen, PathOf(Head(docs))))

DocsOfFile(docs, file_path) == SelectSeq(docs, LAMBDA d : PathOf(d) = file_path)

StructureHeader(file_path) == "## File Path: " \o file_path

StructureRule == "----------"

StructurePart(docs, file_path) ==
    LET mine == DocsOfFile(docs, file_path)
    IN  <<StructureHeader(file_path), "nl2">>
        \o Join([i \in 1..Len(mine) |-> <<mine[i].text>>], <<"nl2">>)

\* "\n\n" + "-" * 10 + "\n\n".join(context_parts): the rule is prepended once
\* and the parts are joined by blank lines.
StructureContext(docs) ==
    IF docs = <<>> THEN <<>>
    ELSE LET keys  == FilesInOrder(docs, <<>>)
             parts == [k \in 1..Len(keys) |-> StructurePart(docs, keys[k])]
         IN  <<"nl2", StructureRule>> \o Join(parts, <<"nl2">>)

PageHeader(file_path) == "File: " \o file_path

PageRule == "---"

FirstDocsUncapped(docs) == docs

\* documents[:15]
FirstDocs(docs) == SubSeq(docs, 1, IF Len(docs) < PageDocLimit THEN Len(docs) ELSE PageDocLimit)

\* One part per document, joined by the rule.
PageContext(docs) ==
    IF docs = <<>> THEN <<>>
    ELSE LET top   == FirstDocs(docs)
             parts == [i \in 1..Len(top) |-> <<PageHeader(PathOf(top[i])), "nl", top[i].text>>]
         IN  Join(parts, <<"nl2", PageRule, "nl2">>)

(***************************************************************************)
(* File links (WikiGenerator.generate_file_url).  A repository URL is      *)
(* [text, parses, hostname]: the string, whether urlparse accepts it, and  *)
(* the labels of its host name (None when it has none).                    *)
(***************************************************************************)
default_branch == "main"

HostHas(url, word) == url.hostname # None /\ word \in Range(url.hostname[1])

generate_file_url(info, file_path) ==
    IF info.type = "local" THEN file_path
    ELSE IF info.repo_url = None THEN file_path
    ELSE LET url == info.repo_url[1]
         IN  IF ~url.parses THEN file_path
             ELSE IF HostHas(url, "github")
                  THEN url.text \o "/blob/" \o default_branch \o "/" \o file_path
             ELSE IF HostHas(url, "gitlab")
                  THEN url.text \o "/-/blob/" \o default_branch \o "/" \o file_path
             ELSE IF HostHas(url, "bitbucket")
                  THEN url.text \o "/src/" \o default_branch \o "/" \o file_path
             ELSE file_path

\* The link list of create_page_content_prompt.
FileLinks(info, file_paths) ==
    [i \in 1..Len(file_paths) |-> generate_file_url(info, file_paths[i])]

(***************************************************************************)
(* Inputs: what the Generator and the file system may answer.              *)
(***************************************************************************)
PageTitles == {<<"A">>, <<"A", ":">>, <<"B", " ", "c">>}

Tree(pages, has_sections, sections) ==
    [title |-> <<"W">>, description |-> <<"d">>, has_pages |-> TRUE,
     pages |-> pages, has_sections |-> has_sections, sections |-> sections]

Response(toks, tree) == [toks |-> toks, tree |-> tree]

PlainText == <<"open", "body", "close">>

RunPageElems ==
    {[id |-> i, title |-> t, importance |-> "high", file_paths |-> <<"a.py">>,
      related |-> <<>>] : i \in {Absent, "p1"}, t \in PageTitles}

RunTexts ==
    {PlainText,
     <<"prose", "fence", "xml", "ws", "open", "body", "close", "ws", "fence">>,
     <<"prose">>,
     <<"open", "body">>,
     <<"open", "badxml", "close">>}

StructureResponses ==
    {Response(w, Tree(ps, FALSE, <<>>)) : w \in RunTexts, ps \in SeqsUpTo(RunPageElems, MaxPages)}

PageContents ==
    {None, Some(<<>>), Some(<<"x">>), Some(<<"fence", "markdown", "y", "fence">>),
     Some(<<"fence", "markdown", "y", "fence", "z", "fence", "w", "fence">>)}

WriteOutcomes == {"ok", "open_fails", "write_fails"}

Doc(file_path, text) == [file_path |-> file_path, text |-> text]

RunDocuments == {<<Doc("F1", "a"), Doc("F2", "b"), Doc("F1", "c")>>}

Url(text, hostname) == [text |-> text, parses |-> TRUE, hostname |-> Some(hostname)]

\* RepoInfo as generate builds it from REPO_PATH and --repo-type.
CliRepoInfo(repo_type, repo_url) == [type |-> repo_type, repo_url |-> repo_url]

RunRepoInfos == {CliRepoInfo("github", Some(Url("https://github.com/o/r", <<"github", "com">>)))}

(***************************************************************************)
(* The run of generate, from step 5 on.                                    *)
(***************************************************************************)
NextPageStopsAfterFirst(i, n) ==
    IF i < 1 /\ i < n THEN [pc |-> "retrieve_page", idx |-> i + 1]
    ELSE [pc |-> "write_index", idx |-> i]

NextPageSkipRetrieval(i, n) ==
    IF i < n THEN [pc |-> "generate_page", idx |-> i + 1]
    ELSE [pc |-> "write_index", idx |-> i]

\* for idx, page in enumerate(wiki_structure.pages, 1)
NextPage(i, n) ==
    IF i < n THEN [pc |-> "retrieve_page", idx |-> i + 1]
    ELSE [pc |-> "write_index", idx |-> i]

AfterPageWriteSwallowed(outcome, i, n) == NextPage(i, n)

\* An exception of open / write leaves the loop for the except clause.
AfterPageWrite(outcome, i, n) ==
    IF outcome = "ok" THEN NextPage(i, n) ELSE [pc |-> "Failed", idx |-> i]

Init ==
    /\ pc = "retrieve_structure"
    /\ idx = 0
    /\ is_comprehensive = TRUE
    /\ generated_pages = {}
    /\ pages_in_progress = {}
    /\ structure_xml = None
    /\ wiki_structure = None
    /\ page_responses = <<>>
    /\ files = <<>>
    /\ index_file = None
    /\ calls = <<>>
    /\ persisted = <<>>
    /\ write_errors = <<>>
    /\ repo_info \in RunRepoInfos
    /\ documents = <<>>
    /\ context_text = <<>>
    /\ file_links = <<>>

\* request_rag.call(structure_prompt): returns or raises.
RetrieveStructure ==
    /\ pc = "retrieve_structure"
    /\ calls' = Append(calls, <<"retrieve", 0>>)
    /\ \/ /\ pc' = "generate_structure"
          /\ \E docs \in RunDocuments :
               documents' = docs /\ context_text' = StructureContext(docs)
       \/ /\ pc' = "Failed"
          /\ UNCHANGED <<documents, context_text>>
    /\ UNCHANGED <<repo_info, file_links>>
    /\ UNCHANGED <<idx, is_comprehensive, generated_pages, pages_in_progress,
                   structure_xml, wiki_structure, page_responses, files,
                   index_file, persisted, write_errors>>

\* generator_client.call raises.
GenerateStructureRaises ==
    /\ pc = "generate_structure"
    /\ calls' = Append(calls, <<"generate", 0>>)
    /\ pc' = "Failed"
    /\ UNCHANGED <<idx, is_comprehensive, generated_pages, pages_in_progress,
                   structure_xml, wiki_structure, page_responses, files,
                   index_file, persisted, write_errors>>
    /\ UNCHANGED promptVars

\* generator_client.call returns; the response is parsed and checked.
GenerateStructure ==
    /\ pc = "generate_structure"
    /\ calls' = Append(calls, <<"generate", 0>>)
    /\ \E response \in StructureResponses :
         LET result == parse_wiki_structure_xml(response, is_comprehensive)
         IN  /\ structure_xml' = Some(response)
             /\ wiki_structure' = result
             /\ IF result = None
                THEN pc' = "Failed" /\ idx' = idx
                ELSE LET next == NextPage(0, Len(result[1].pages))
                     IN  pc' = next.pc /\ idx' = next.idx
    /\ UNCHANGED <<is_comprehensive, generated_pages, pages_in_progress,
                   page_responses, files, index_file, persisted, write_errors>>
    /\ UNCHANGED promptVars

\* request_rag.call(content_prompt): returns or raises.
RetrievePage ==
    /\ pc = "retrieve_page"
    /\ calls' = Append(calls, <<"retrieve", idx>>)
    /\ file_links' = FileLinks(repo_info, wiki_structure[1].pages[idx].file_paths)
    /\ \/ /\ pc' = "generate_page"
          /\ \E docs \in RunDocuments :
               documents' = docs /\ context_text' = PageContext(docs)
       \/ /\ pc' = "Failed"
          /\ UNCHANGED <<documents, context_text>>
    /\ UNCHANGED repo_info
    /\ UNCHANGED <<idx, is_comprehensive, generated_pages, pages_in_progress,
                   structure_xml, wiki_structure, page_responses, files,
                   index_file, persisted, write_errors>>

GeneratePageRaises ==
    /\ pc = "generate_page"
    /\ calls' = Append(calls, <<"generate", idx>>)
    /\ pc' = "Failed"
    /\ UNCHANGED <<idx, is_comprehensive, generated_pages, pages_in_progress,
                   structure_xml, wiki_structure, page_responses, files,
                   index_file, persisted, write_errors>>
    /\ UNCHANGED promptVars

\* The Generator answers for page idx; an empty answer is skipped, any other
\* is cleaned and written to the page's file.
GeneratePage ==
    /\ pc = "generate_page"
    /\ calls' = Append(calls, <<"generate", idx>>)
    /\ \E page_content \in PageContents, outcome \in WriteOutcomes :
         LET page == wiki_structure[1].pages[idx]
             n    == Len(wiki_structure[1].pages)
             name == MarkdownFile(page.title)
         IN  /\ page_responses' = Append(page_responses, page_content)
             /\ IF IsFalsy(page_content)
                THEN /\ outcome = "ok"
                     /\ pc' = NextPage(idx, n).pc
                     /\ idx' = NextPage(idx, n).idx
                     /\ UNCHANGED <<files, persisted, write_errors>>
                ELSE /\ pc' = AfterPageWrite(outcome, idx, n).pc
                     /\ idx' = AfterPageWrite(outcome, idx, n).idx
                     /\ files' = CASE outcome = "ok" ->
                                        WriteFile(files, name, CleanPageContent(page_content[1]))
                                   [] outcome = "write_fails" -> WriteFile(files, name, <<>>)
                                   [] OTHER -> files
                     /\ persisted' = IF outcome = "ok" THEN Append(persisted, idx)
                                     ELSE persisted
                     /\ write_errors' = IF outcome = "ok" THEN write_errors
                                        ELSE Append(write_errors, <<"page", idx>>)
    /\ UNCHANGED <<is_comprehensive, generated_pages, pages_in_progress,
                   structure_xml, wiki_structure, index_file>>
    /\ UNCHANGED promptVars

\* Step 7: README.md.
WriteIndex ==
    /\ pc = "write_index"
    /\ \E outcome \in WriteOutcomes :
         /\ pc' = IF outcome = "ok" THEN "Done" ELSE "Failed"
         /\ index_file' = CASE outcome = "ok" -> Some(IndexContent(wiki_structure[1]))
                            [] outcome = "write_fails" ->
                                 Some([title |-> <<>>, description |-> <<>>, links |-> <<>>])
                            [] OTHER -> index_file
         /\ write_errors' = IF outcome = "ok" THEN write_errors
                            ELSE Append(write_errors, <<"index", 0>>)
    /\ UNCHANGED <<idx, is_comprehensive, generated_pages, pages_in_progress,
                   structure_xml, wiki_structure, page_responses, files, calls,
                   persisted>>
    /\ UNCHANGED promptVars

Next ==
    \/ RetrieveStructure
    \/ GenerateStructureRaises
    \/ GenerateStructure
    \/ RetrievePage
    \/ GeneratePageRaises
    \/ GeneratePage
    \/ WriteIndex

Spec == Init /\ [][Next]_vars

\* generate is one sequential function: while it has a step to take it takes it.
SpecLive == Init /\ [][Next]_vars /\ WF_vars(Next)

(***************************************************************************)
(* The parser on its own: parse_wiki_structure_xml applied to one text,    *)
(* in either mode of the generator.                                        *)
(***************************************************************************)
ImportanceTexts == {Absent, "high", "medium", "low", "", "High", "LOW", " low ", "critical"}

IdAttrs == {Absent, "", "p1", "page-2"}

PageElems ==
    {[id |-> i, title |-> <<"A">>, importance |-> "high", file_paths |-> <<"a.py", "">>,
      related |-> <<"", "p1">>] : i \in IdAttrs}
    \cup {[id |-> Absent, title |-> <<"A">>, importance |-> imp,
           file_paths |-> <<"a.py", "">>, related |-> <<"", "p1">>] :
             imp \in ImportanceTexts}

SectionIdAttrs == {Absent, "", "s1", "section-2"}

SectionRefLists ==
    {<<>>, <<"s1">>, <<"section-2">>, <<"zz", "">>, <<"section-2", "s1">>}

SectionElems ==
    {[id |-> i, title |-> <<"S">>, page_refs |-> <<"p1", "">>, section_refs |-> srs] :
        i \in SectionIdAttrs, srs \in SectionRefLists}

OnePage == [id |-> "p1", title |-> <<"A">>, importance |-> "low",
            file_paths |-> <<>>, related |-> <<>>]

ParseTexts ==
    RunTexts \cup {<<"open", "close">>,
                   <<"open", "open", "body", "close", "close">>,
                   <<"close", "open", "body", "ctrl", "close", "prose", "close">>}

\* A payload with the root's title written out, and the ways the Generator
\* may wrap it: a sentence before, a fence (bare or tagged) around, prose
\* after, and one character inserted at any position.
PayloadText == <<"open", "title_open", "W", "title_close", "body", "close">>

Wrappings ==
    [pre : {<<>>, <<"prose", "ws">>}, fence : {"none", "bare", "xml", "XML"},
     post : {<<>>, <<"ws", "prose">>}, ins : {"none", "ctrl", "del", "ws"},
     at : 0..15]

Wrap(w, payload) ==
    LET opening == CASE w.fence = "none" -> <<>>
                     [] w.fence = "bare" -> <<"fence", "ws">>
                     [] OTHER -> <<"fence", w.fence, "ws">>
        closing == IF w.fence = "none" THEN <<>> ELSE <<"ws", "fence">>
        base    == w.pre \o opening \o payload \o closing \o w.post
        k       == IF w.at > Len(base) THEN Len(base) ELSE w.at
    IN  IF w.ins = "none" THEN base
        ELSE SubSeq(base, 1, k) \o <<w.ins>> \o SubSeq(base, k + 1, Len(base))

WrappedTrees ==
    {Tree(<<OnePage>>, FALSE, <<>>),
     Tree(<<OnePage, [OnePage EXCEPT !.id = Absent]>>, TRUE,
          <<[id |-> "s1", title |-> <<"S">>, page_refs |-> <<"p1">>,
             section_refs |-> <<>>]>>)}

ParseInputs ==
    {Response(w, Tree(<<OnePage>>, FALSE, <<>>)) : w \in ParseTexts}
    \cup {Response(Wrap(w, PayloadText), t) : w \in Wrappings, t \in WrappedTrees}
    \cup {Response(PlainText, Tree(ps, FALSE, <<>>)) : ps \in SeqsUpTo(PageElems, MaxPageElems)}
    \cup {Response(PlainText, Tree(<<OnePage>>, TRUE, ss)) :
            ss \in SeqsUpTo(SectionElems, MaxSections)}

InitParse ==
    /\ pc = "parse"
    /\ idx = 0
    /\ is_comprehensive \in BOOLEAN
    /\ generated_pages = {}
    /\ pages_in_progress = {}
    /\ structure_xml \in {Some(r) : r \in ParseInputs}
    /\ wiki_structure = None
    /\ page_responses = <<>>
    /\ files = <<>>
    /\ index_file = None
    /\ calls = <<>>
    /\ persisted = <<>>
    /\ write_errors = <<>>
    /\ repo_info \in RunRepoInfos
    /\ documents = <<>>
    /\ context_text = <<>>
    /\ file_links = <<>>

ParseStep ==
    /\ pc = "parse"
    /\ wiki_structure' = parse_wiki_structure_xml(structure_xml[1], is_comprehensive)
    /\ pc' = "parsed"
    /\ UNCHANGED <<idx, is_comprehensive, generated_pages, pages_in_progress,
                   structure_xml, page_responses, files, index_file, calls,
                   persisted, write_errors>>
    /\ UNCHANGED promptVars

NextParse == ParseStep

SpecParse == InitParse /\ [][NextParse]_vars

(***************************************************************************)
(* Properties of the run (specification Spec).                             *)
(***************************************************************************)
Pages == wiki_structure[1].pages

NonEmptyResponse(i) == page_responses[i] # None /\ page_responses[i][1] # <<>>

RECURSIVE LinksOf(_)
LinksOf(numbers) ==
    IF numbers = <<>> THEN <<>>
    ELSE <<[title  |-> Pages[Head(numbers)].title,
            target |-> MarkdownFile(Pages[Head(numbers)].title)]>> \o LinksOf(Tail(numbers))

\* C1: once the index is written, its link lines are exactly the lines of
\* the pages persisted in this run, in declaration order; a skipped page has
\* no line.
C1_IndexListsPersistedPages ==
    pc = "Done" => index_file[1].links = LinksOf(persisted)

\* C2: an empty or absent response for page i writes nothing, does not fail
\* the run and moves on to page i+1 (or to the index after the last page);
\* at Done exactly the pages with a non-empty response are persisted and the
\* index is written.
C2_SkipStep ==
    (/\ pc = "generate_page"
     /\ Len(page_responses') = Len(page_responses) + 1
     /\ LET answer == page_responses'[Len(page_responses')]
        IN  answer = None \/ answer[1] = <<>>)
    => /\ files' = files
       /\ persisted' = persisted
       /\ write_errors' = write_errors
       /\ pc' # "Failed"
       /\ IF idx < Len(Pages)
          THEN pc' = "retrieve_page" /\ idx' = idx + 1
          ELSE pc' = "write_index"

C2_DoneState ==
    pc = "Done" =>
        /\ Len(page_responses) = Len(Pages)
        /\ \A i \in 1..Len(Pages) : NonEmptyResponse(i) <=> i \in Range(persisted)
        /\ index_file # None

C2_EmptyResponseIsPageScoped == [][C2_SkipStep]_vars /\ []C2_DoneState

C2_Witness ==
    /\ pc = "Done"
    /\ Len(Pages) = 2
    /\ page_responses[1] = Some(<<>>)
    /\ persisted = <<2>>

\* C3: a structure response without a wiki_structure span, or with a span
\* that does not parse, yields no structure and ends the run in Failed with
\* no page call, no page artifact and no index.
NoParsableSpan(toks) ==
    LET t == SelectSeq(toks, LAMBDA k : k # "ctrl")
    IN  \/ ~ \E i, j \in 1..Len(t) : i < j /\ t[i] = "open" /\ t[j] = "close"
        \/ \E i, j \in 1..Len(t) :
             /\ i < j /\ t[i] = "open" /\ t[j] = "close"
             /\ \A k \in 1..(i-1) : t[k] # "open"
             /\ \A k \in (i+1)..(j-1) : t[k] # "close"
             /\ \E k \in (i+1)..(j-1) : t[k] \in {"open", "badxml"}

C3_ParseFailureIsFatal ==
    (structure_xml # None /\ NoParsableSpan(structure_xml[1].toks))
    => /\ wiki_structure = None
       /\ pc = "Failed"
       /\ calls = <<<<"retrieve", 0>>, <<"generate", 0>>>>
       /\ files = <<>>
       /\ index_file = None

C3_Witness ==
    /\ structure_xml # None
    /\ structure_xml[1].toks = <<"open", "badxml", "close">>
    /\ pc = "Failed"

\* C4: a write that raises, for the file of page i or for the index, ends the
\* run in Failed: no call is issued for a page after i and the run is never
\* Done.
C4_WriteFailureIsFatal ==
    write_errors # <<>> =>
        /\ pc = "Failed"
        /\ Len(write_errors) = 1
        /\ \A k \in 1..Len(calls) :
             write_errors[1][1] = "page" => calls[k][2] <= write_errors[1][2]
        /\ write_errors[1][1] = "page" => index_file = None

C4_Witness ==
    /\ write_errors = <<<<"page", 1>>>>
    /\ Len(Pages) = 2
    /\ pc = "Failed"

C6_NoPageIdGeneratedTwice ==
    wiki_structure # None =>
        \A a, b \in 1..Len(page_responses) : a # b => Pages[a].id # Pages[b].id

\* C7: a parsed page starts with an empty body, a persisted page has its body
\* set to the persisted content, a skipped page keeps the empty body, and the
\* page and section sequences never shrink.
C7_BodyFilledInPlace ==
    wiki_structure # None =>
        /\ Len(Pages) = Len(structure_xml[1].tree.pages)
        /\ \A i \in 1..Len(Pages) :
             Pages[i].content =
                IF i \in Range(persisted) THEN CleanPageContent(page_responses[i][1])
                ELSE <<>>

\* The response without the fence markers that wrap the whole body.
Unwrapped(text) ==
    LET n == Len(text)
    IN  IF n >= 2 /\ text[1] = "fence" /\ text[n] = "fence"
        THEN IF n >= 3 /\ text[2] = "markdown" THEN SubSeq(text, 3, n - 1)
             ELSE SubSeq(text, 2, n - 1)
        ELSE text

\* C18: the body written for a non-empty response is the response without
\* the fence markers that wrap it; fenced blocks inside the page are written
\* as generated.
C18_OnlyWrappingFenceRemoved ==
    (persisted # <<>> /\ write_errors = <<>>) =>
        LET i == persisted[Len(persisted)]
        IN  files[MarkdownFile(Pages[i].title)] = Unwrapped(page_responses[i][1])

\* The persisted pages whose title gives the file name.
WritersOf(name) == {i \in Range(persisted) : MarkdownFile(Pages[i].title) = name}

\* C20: pages whose titles give the same file name share that file; at
\* Done there is one file per name, and it holds the cleaned response of the
\* last persisted page with that name.
C20_LastWriteWins ==
    pc = "Done" =>
        /\ DOMAIN files = {MarkdownFile(Pages[i].title) : i \in Range(persisted)}
        /\ \A name \in DOMAIN files :
             LET last == CHOOSE i \in WritersOf(name) : \A k \in WritersOf(name) : k <= i
             IN  files[name] = CleanPageContent(page_responses[last][1])

C20_Witness ==
    /\ pc = "Done"
    /\ Len(Pages) >= 2
    /\ Pages[1].title = <<"A">>
    /\ Pages[2].title = <<"A", ":">>
    /\ {1, 2} \subseteq Range(persisted)
    /\ page_responses[1] # page_responses[2]
    /\ Len(Pages) = 2 => files = (<<"A", ".md">> :> CleanPageContent(page_responses[2][1]))

(***************************************************************************)
(* The run as a state machine (specification SpecLive).                    *)
(***************************************************************************)
Terminal == {"Done", "Failed"}

\* The position of a state on the path Discovering, StructureReady,
\* GeneratingPages(1), ..., GeneratingPages(N), Indexed, Done.
Rank ==
    CASE pc = "retrieve_structure" -> 0
      [] pc = "generate_structure" -> 1
      [] pc = "retrieve_page" -> 2 * idx
      [] pc = "generate_page" -> 2 * idx + 1
      [] pc = "write_index" -> 2 * Len(Pages) + 2
      [] pc = "Done" -> 2 * Len(Pages) + 3
      [] OTHER -> 2 * MaxPages + 4

\* What a step into Failed is due to: a call that raised, a structure that
\* did not parse, or a write that failed.
FailureCause ==
    \/ pc \in {"retrieve_structure", "retrieve_page"}
    \/ pc = "generate_structure" /\ (structure_xml' = None \/ wiki_structure' = None)
    \/ pc = "generate_page" /\ (page_responses' = page_responses \/ write_errors' # write_errors)
    \/ pc = "write_index" /\ write_errors' # write_errors

\* C16: every step moves the run forward on its path or into Failed,
\* nothing happens after Done or Failed, Failed can be entered from every
\* other state, the index is written only when all pages have been
\* processed, every run ends in Done or Failed, and it ends in Failed only
\* through a raised call, a structure that does not parse or a failed write.
C16_ForwardToTerminal ==
    /\ [][Rank' > Rank /\ pc \notin Terminal]_vars
    /\ [](pc \notin Terminal => ENABLED (Next /\ pc' = "Failed"))
    /\ [](index_file # None =>
            /\ pc \in Terminal
            /\ Len(page_responses) = Len(Pages)
            /\ idx = Len(Pages))
    /\ <>(pc \in Terminal)
    /\ [][pc' = "Failed" => FailureCause]_vars

C16_Witness ==
    /\ pc = "Done"
    /\ Len(Pages) >= 2
    /\ Len(persisted) = Len(Pages)
    /\ index_file # None
    /\ Len(calls) = 2 * Len(Pages) + 2

(***************************************************************************)
(* Properties of the parser (specification SpecParse).                     *)
(***************************************************************************)
Distinct(ids) == \A a, b \in 1..Len(ids) : a # b => ids[a] # ids[b]

\* C8: every structure returned by the parser has pairwise distinct page ids
\* and pairwise distinct section ids.
C8_UniqueIds ==
    (pc = "parsed" /\ wiki_structure # None) =>
        /\ Distinct(IdsOf(wiki_structure[1].pages))
        /\ Distinct(IdsOf(wiki_structure[1].sections))

\* C9: the root sections are exactly the ids of the sections that no section
\* lists as a subsection, in section declaration order.
IsReferenced(secs, id) ==
    \E j \in 1..Len(secs) :
        secs[j].subsections # None /\ id \in Range(secs[j].subsections[1])

C10_ImportanceNormalized ==
    (pc = "parsed" /\ structure_xml[1].toks = PlainText) =>
        /\ wiki_structure # None
        /\ Len(wiki_structure[1].pages) = Len(structure_xml[1].tree.pages)
        /\ \A i \in 1..Len(wiki_structure[1].pages) :
             LET text == structure_xml[1].tree.pages[i].importance
                 imp  == wiki_structure[1].pages[i].importance
             IN  /\ imp \in {"high", "medium", "low"}
                 /\ text \in {"high", "medium", "low"} => imp = text
                 /\ text \notin {"high", "medium", "low"} => imp = "medium"

C10_Witness ==
    /\ pc = "parsed"
    /\ wiki_structure # None
    /\ Len(wiki_structure[1].pages) = 2
    /\ structure_xml[1].tree.pages[1].importance = "High"
    /\ structure_xml[1].tree.pages[2].importance = "low"
    /\ wiki_structure[1].pages[1].importance = "medium"
    /\ wiki_structure[1].pages[2].importance = "low"

(***************************************************************************)
(* The context assembler on its own: one retrieval result assembled on     *)
(* the structure path or on the page path.                                 *)
(***************************************************************************)
DocChoices == {Doc(f, t) : f \in {"F1", "F2", Absent}, t \in {"a", "b"}}

\* n documents with distinct texts, the first k of file F1 and the rest of F2.
SplitDocs(n, k) == [i \in 1..n |-> Doc(IF i <= k THEN "F1" ELSE "F2", ToString(i))]

LongDocLists ==
    {SplitDocs(n, k) : n \in (PageDocLimit - 1)..(PageDocLimit + MaxExtraDocs),
                       k \in 0..(PageDocLimit + MaxExtraDocs)}

DocLists == SeqsUpTo(DocChoices, MaxDocs) \cup LongDocLists

InitContext ==
    /\ pc = "assemble"
    /\ idx = 0
    /\ is_comprehensive = TRUE
    /\ generated_pages = {}
    /\ pages_in_progress = {}
    /\ structure_xml = None
    /\ wiki_structure = None
    /\ page_responses = <<>>
    /\ files = <<>>
    /\ index_file = None
    /\ calls = <<>>
    /\ persisted = <<>>
    /\ write_errors = <<>>
    /\ repo_info \in RunRepoInfos
    /\ documents \in DocLists
    /\ context_text = <<>>
    /\ file_links = <<>>

AssembleStructureContext ==
    /\ pc = "assemble"
    /\ context_text' = StructureContext(documents)
    /\ pc' = "structure_context"
    /\ UNCHANGED <<idx, is_comprehensive, generated_pages, pages_in_progress,
                   structure_xml, wiki_structure, page_responses, files,
                   index_file, calls, persisted, write_errors, repo_info,
                   documents, file_links>>

AssemblePageContext ==
    /\ pc = "assemble"
    /\ context_text' = PageContext(documents)
    /\ pc' = "page_context"
    /\ UNCHANGED <<idx, is_comprehensive, generated_pages, pages_in_progress,
                   structure_xml, wiki_structure, page_responses, files,
                   index_file, calls, persisted, write_errors, repo_info,
                   documents, file_links>>

NextContext == AssembleStructureContext \/ AssemblePageContext

SpecContext == InitContext /\ [][NextContext]_vars

(***************************************************************************)
(* Properties of the assembler (specification SpecContext).                *)
(***************************************************************************)
AllPaths == {"F1", "F2", "unknown"}

IsHeader(tok) == \E f \in AllPaths : tok \in {StructureHeader(f), PageHeader(f)}

IsRule(tok) == tok \in {StructureRule, PageRule}

IsText(tok) == ~IsHeader(tok) /\ ~IsRule(tok) /\ tok \notin {"nl", "nl2"}

HeaderPositions(ctx) == {p \in 1..Len(ctx) : IsHeader(ctx[p])}

\* The documents the path considers: the first 15 on the page path, all of
\* them on the structure path.
Considered ==
    IF pc = "page_context"
    THEN [i \in 1..(IF Len(documents) < 15 THEN Len(documents) ELSE 15) |-> documents[i]]
    ELSE documents

\* The text tokens of the group that starts at header position p.
GroupTexts(ctx, p) ==
    LET later == {q \in HeaderPositions(ctx) : q > p}
        stop  == IF later = {} THEN Len(ctx) + 1
                 ELSE CHOOSE q \in later : \A r \in later : q <= r
    IN  SelectSeq(SubSeq(ctx, p + 1, stop - 1), IsText)

\* C11: on both paths every distinct file path has exactly one group, the
\* groups are in first-seen order of their path, and a group holds the texts
\* of its file in retrieval order.
C11_GroupedByFile ==
    pc \in {"structure_context", "page_context"} =>
        LET docs   == Considered
            firsts == {i \in 1..Len(docs) :
                         \A j \in 1..(i-1) : PathOf(docs[j]) # PathOf(docs[i])}
            heads  == HeaderPositions(context_text)
            nth(i) == Cardinality({k \in firsts : k <= i})
            pos(n) == CHOOSE p \in heads : Cardinality({q \in heads : q <= p}) = n
        IN  /\ Cardinality(heads) = Cardinality(firsts)
            /\ \A i \in firsts :
                 /\ context_text[pos(nth(i))] \in
                        {StructureHeader(PathOf(docs[i])), PageHeader(PathOf(docs[i]))}
                 /\ GroupTexts(context_text, pos(nth(i))) =
                        LET mine == SelectSeq(docs, LAMBDA d : PathOf(d) = PathOf(docs[i]))
                        IN  [k \in 1..Len(mine) |-> mine[k].text]

Count(seq, x) == Cardinality({i \in 1..Len(seq) : seq[i] = x})

\* C12: the page context is built from exactly the first min(n, 15)
\* documents, in retrieval order, cut before anything else is done with
\* them; the structure context uses all n documents.
C12_PageContextCapped ==
    LET n     == Len(documents)
        texts == SelectSeq(context_text, IsText)
        heads == SelectSeq(context_text, IsHeader)
        m     == IF n < 15 THEN n ELSE 15
    IN  /\ pc = "page_context" =>
             /\ texts = [i \in 1..m |-> documents[i].text]
             /\ heads = [i \in 1..m |-> PageHeader(PathOf(documents[i]))]
        /\ pc = "structure_context" =>
             /\ Len(texts) = n
             /\ \A i \in 1..n :
                  Count(texts, documents[i].text)
                    = Cardinality({j \in 1..n : documents[j].text = documents[i].text})

C12_Witness ==
    /\ pc = "page_context"
    /\ Len(documents) = 17
    /\ \A i \in 1..15 : documents[i].file_path = "F1"
    /\ documents[16].file_path = "F2"
    /\ \A p \in 1..Len(context_text) : context_text[p] # PageHeader("F2")
    /\ Len(SelectSeq(context_text, IsText)) = 15

\* C17: with two or more groups, every header after the first is preceded,
\* after the previous group, by the rule of dashes.
C17_RuleBetweenGroups ==
    pc \in {"structure_context", "page_context"} =>
        LET heads == HeaderPositions(context_text)
        IN  \A p, q \in heads :
                (p < q /\ \A r \in heads : ~(p < r /\ r < q))
                => \E r \in (p+1)..(q-1) : IsRule(context_text[r])

(***************************************************************************)
(* File links on their own: the link list of create_page_content_prompt    *)
(* for one page and one repository.                                        *)
(***************************************************************************)
RepoUrls ==
    {None,
     Some(Url("https://github.com/o/r", <<"github", "com">>)),
     Some(Url("https://gitlab.com/o/r", <<"gitlab", "com">>)),
     Some(Url("https://bitbucket.org/o/r", <<"bitbucket", "org">>)),
     Some(Url("https://gitlab.example.com/o/r", <<"gitlab", "example", "com">>)),
     Some(Url("https://git.example.com/o/r", <<"git", "example", "com">>)),
     Some([text |-> "https:///o/r", parses |-> TRUE, hostname |-> None]),
     Some([text |-> "https://[o/r", parses |-> FALSE, hostname |-> None])}

RepoInfos ==
    {[type |-> t, repo_url |-> u] : t \in {"github", "gitlab", "bitbucket", "local"},
                                    u \in RepoUrls}

FilePathLists == {<<>>, <<"a.py">>, <<"src/b.py", "a.py">>}

PageWithFiles(file_paths) ==
    [id |-> "p1", title |-> <<"A">>, content |-> <<>>, file_paths |-> file_paths,
     importance |-> "medium", related_pages |-> <<>>]

InitUrl ==
    /\ pc = "page_prompt"
    /\ idx = 1
    /\ is_comprehensive = TRUE
    /\ generated_pages = {}
    /\ pages_in_progress = {}
    /\ structure_xml = None
    /\ \E fps \in FilePathLists :
         wiki_structure = Some([id |-> "wiki", title |-> <<"W">>, description |-> <<"d">>,
                                pages |-> <<PageWithFiles(fps)>>, sections |-> <<>>,
                                root_sections |-> <<>>])
    /\ page_responses = <<>>
    /\ files = <<>>
    /\ index_file = None
    /\ calls = <<>>
    /\ persisted = <<>>
    /\ write_errors = <<>>
    /\ repo_info \in RepoInfos
    /\ documents = <<>>
    /\ context_text = <<>>
    /\ file_links = <<>>

CreatePagePrompt ==
    /\ pc = "page_prompt"
    /\ file_links' = FileLinks(repo_info, wiki_structure[1].pages[idx].file_paths)
    /\ pc' = "page_prompt_done"
    /\ UNCHANGED <<idx, is_comprehensive, generated_pages, pages_in_progress,
                   structure_xml, wiki_structure, page_responses, files,
                   index_file, calls, persisted, write_errors, repo_info,
                   documents, context_text>>

NextUrl == CreatePagePrompt

SpecUrl == InitUrl /\ [][NextUrl]_vars

\* C13: the link of a file path follows the hosting kind of the repository:
\* github repo_url/blob/main/path, gitlab repo_url/-/blob/main/path,
\* bitbucket repo_url/src/main/path, local the path itself, whatever the
\* host name of the repository URL is.
C13_LinkByHostingKind ==
    (pc = "page_prompt_done" /\ repo_info.repo_url # None /\ repo_info.repo_url[1].parses) =>
        LET paths == wiki_structure[1].pages[idx].file_paths
            url   == repo_info.repo_url[1].text
        IN  /\ Len(file_links) = Len(paths)
            /\ \A i \in 1..Len(paths) :
                 file_links[i] =
                    CASE repo_info.type = "github"    -> url \o "/blob/main/" \o paths[i]
                      [] repo_info.type = "gitlab"    -> url \o "/-/blob/main/" \o paths[i]
                      [] repo_info.type = "bitbucket" -> url \o "/src/main/" \o paths[i]
                      [] OTHER                        -> paths[i]

\* The id the claim gives the n-th entry: the attribute, or the fallback when
\* the attribute is absent or blank.
IdOrFallback(attr, fallback) == IF attr \in {Absent, ""} THEN fallback ELSE attr

\* C19: a page entry without an id, or with a blank one, gets page-n and a
\* section entry gets section-n, n being its position in creation order; any
\* other id is kept.
C19_FallbackIds ==
    (pc = "parsed" /\ wiki_structure # None /\ structure_xml[1].toks = PlainText) =>
        LET tree == structure_xml[1].tree
            ws   == wiki_structure[1]
        IN  /\ Len(ws.pages) = Len(tree.pages)
            /\ \A n \in 1..Len(tree.pages) :
                 ws.pages[n].id = IdOrFallback(tree.pages[n].id, "page-" \o ToString(n))
            /\ (is_comprehensive /\ tree.has_sections) =>
                 /\ Len(ws.sections) = Len(tree.sections)
                 /\ \A n \in 1..Len(tree.sections) :
                      ws.sections[n].id =
                        IdOrFallback(tree.sections[n].id, "section-" \o ToString(n))

\* Insertions of characters that the cleanup removes.
RemovedInsertions == {w \in Wrappings : w.ins \in {"none", "ctrl", "del"}}

\* C15 as stated: a payload wrapped in a fence, with a sentence before
\* and prose after, and with any C0 control character (tab, line feed and
\* carriage return among them) or DEL inserted, parses to the structure of the
\* payload alone, and never fails.
C15_AnyControlInserted ==
    pc = "parsed" =>
        \A w \in Wrappings :
            structure_xml[1].toks = Wrap(w, PayloadText) =>
                /\ wiki_structure # None
                /\ wiki_structure =
                     parse_wiki_structure_xml(Response(PayloadText, structure_xml[1].tree),
                                              is_comprehensive)

\* C15 amended: a payload wrapped in a fence, with a sentence before and
\* prose after, and with a C0 control character other than tab, line feed and
\* carriage return, or DEL, inserted, parses to the structure of the payload
\* alone, and never fails.
C15_WrappedParsesEqual ==
    pc = "parsed" =>
        \A w \in RemovedInsertions :
            structure_xml[1].toks = Wrap(w, PayloadText) =>
                /\ wiki_structure # None
                /\ wiki_structure[1].title = <<"W">>
                /\ wiki_structure =
                     parse_wiki_structure_xml(Response(PayloadText, structure_xml[1].tree),
                                              is_comprehensive)

C15_Witness ==
    /\ pc = "parsed"
    /\ structure_xml[1].toks =
         <<"prose", "ws", "fence", "xml", "ws", "open", "title_open", "ctrl", "W",
           "title_close", "body", "close", "ws", "fence", "ws", "prose">>
    /\ wiki_structure # None
    /\ wiki_structure[1].title = <<"W">>
    /\ Len(wiki_structure[1].sections) = 1

(***************************************************************************)
(* The page loop for a structure of one page, over many titles.            *)
(***************************************************************************)
TitleChars == {"A", "1", " ", "-", "_", ":"}

ExampleTitle ==
    <<"A", "P", "I", ":", " ", "R", "o", "u", "t", "i", "n", "g", "/",
      "D", "i", "s", "p", "a", "t", "c", "h", "!">>

Titles == SeqsUpTo(TitleChars, MaxTitleLen) \cup {ExampleTitle}

InitTitles ==
    /\ pc = "retrieve_page"
    /\ idx = 1
    /\ is_comprehensive = TRUE
    /\ generated_pages = {}
    /\ pages_in_progress = {}
    /\ \E t \in Titles :
         LET elem == [id |-> Absent, title |-> t, importance |-> "high",
                      file_paths |-> <<"a.py">>, related |-> <<>>]
             response == Response(PlainText, Tree(<<elem>>, FALSE, <<>>))
         IN  /\ structure_xml = Some(response)
             /\ wiki_structure = parse_wiki_structure_xml(response, TRUE)
    /\ page_responses = <<>>
    /\ files = <<>>
    /\ index_file = None
    /\ calls = <<<<"retrieve", 0>>, <<"generate", 0>>>>
    /\ persisted = <<>>
    /\ write_errors = <<>>
    /\ repo_info \in RunRepoInfos
    /\ documents \in RunDocuments
    /\ context_text = StructureContext(documents)
    /\ file_links = <<>>

NextTitles == RetrievePage \/ GeneratePageRaises \/ GeneratePage \/ WriteIndex

SpecTitles == InitTitles /\ [][NextTitles]_vars

\* The artifact name the claim describes for a title: the kept characters
\* between the first and the last kept character that is not a space, spaces
\* turned into underscores, followed by ".md".
ExpectedName(title) ==
    LET kept   == {i \in 1..Len(title) :
                     title[i] \in AlnumChars \/ title[i] \in {" ", "-", "_"}}
        solid  == {i \in kept : title[i] # " "}
        inside == {i \in kept : /\ \E a \in solid : a <= i
                                /\ \E b \in solid : i <= b}
        at(n)  == CHOOSE i \in inside : Cardinality({k \in inside : k <= i}) = n
    IN  [n \in 1..Cardinality(inside) |->
            IF title[at(n)] = " " THEN "_" ELSE title[at(n)]] \o <<".md">>

\* C14: a page is written to the file named by its sanitized title, the
\* title API: Routing/Dispatch! gives API_RoutingDispatch.md, and the index
\* link of a persisted page names the file written for it.
C14_ArtifactName ==
    wiki_structure # None =>
        \A i \in 1..Len(Pages) :
            LET name == ExpectedName(Pages[i].title)
            IN  /\ i \in Range(persisted) => name \in DOMAIN files
                /\ DOMAIN files \subseteq {ExpectedName(Pages[k].title) : k \in 1..Len(Pages)}
                /\ pc = "Done" => index_file[1].links[i].target = name
                /\ Pages[i].title = ExampleTitle =>
                     name = <<"A", "P", "I", "_", "R", "o", "u", "t", "i", "n", "g",
                              "D", "i", "s", "p", "a", "t", "c", "h", ".md">>

C14_Witness ==
    /\ pc = "Done"
    /\ Pages[1].title = ExampleTitle
    /\ persisted = <<1>>
    /\ DOMAIN files = {<<"A", "P", "I", "_", "R", "o", "u", "t", "i", "n", "g",
                         "D", "i", "s", "p", "a", "t", "c", "h", ".md">>}

====
